---- MODULE Spec2Model ----
(***************************************************************************)
(* A model of img_maker_tele.py: the Telegram long-polling loop (main),    *)
(* the poller (get_prompt_from_tele), the image generator (generate_img)   *)
(* and the two responders (to_telegram, send_information).                  *)
(*                                                                         *)
(* Strings the code inspects are modelled by what the code does to them:   *)
(*   - a prompt is a sequence of characters, so that strip() is computed;  *)
(*   - the text of an exception is the set of the markers it contains and  *)
(*     whether its letters are upper case, so that lower() and the         *)
(*     substring tests ("429" in error_str) are computed.                  *)
(***************************************************************************)
EXTENDS Integers, Sequences, FiniteSets, TLC

\* ------------------------------------------------------------------ bounds
\* update_ids the platform hands out are 1..MaxId
MaxId == 2
\* prompts and message texts have at most MaxLen characters
MaxLen == 1
\* an exception text contains at most MaxWords of the markers the code looks for
MaxWords == 3
\* a poll result of a mocked poller holds at most MaxBatch updates
MaxBatch == 2

\* --------------------------------------------------------- program constants
\* time.sleep(1) at the end of a poll cycle
ShortPause == 1
\* time.sleep(5) in the fault boundary
LongPause == 5

\* ----------------------------------------------------------------- prompts
Chars == {" ", "a"}

Whitespace == {" "}

Strings(n) == UNION {[1..k -> Chars] : k \in 0..n}

RECURSIVE lstrip(_)
lstrip(s) == IF s # <<>> /\ Head(s) \in Whitespace THEN lstrip(Tail(s)) ELSE s

RECURSIVE rstrip(_)
rstrip(s) ==
    IF s # <<>> /\ s[Len(s)] \in Whitespace THEN rstrip(SubSeq(s, 1, Len(s) - 1)) ELSE s

\* a validation that forgets strip(): prompt == ""
strip_forgotten(s) == s

\* str.strip(): the string without its leading and trailing whitespace
strip(s) == rstrip(lstrip(s))

\* a prompt argument: Python's None, or a string
None == [none |-> TRUE, s |-> <<>>]

Str(s) == [none |-> FALSE, s |-> s]

\* ------------------------------------------------------- exception texts
\* the substrings generate_img looks for in str(e).lower()
GenMarkers ==
    {"401", "unauthorized", "token", "429", "quota", "503", "loading",
     "connection", "max retries", "credit balance", "depleted"}

\* the substrings get_prompt_from_tele looks for
PollMarkers == {"connection", "max retries", "failed to resolve", "read timed out", "ssl"}

\* the substrings to_telegram looks for
PhotoMarkers ==
    {"connection", "failed to resolve", "max retries", "timeout", "ssl", "certificate"}

\* the substrings send_information looks for
InfoMarkers == {"connection", "dns", "timeout", "ssl"}

\* the substrings main's fault boundary looks for
MainMarkers == {"connection", "failed to resolve", "max retries", "timeout", "json", "decode"}

\* markers without letters: the same in either case
Digits == {"401", "429", "503"}

\* the exception texts over the markers M with at most n markers
Texts(M, n) ==
    {[words |-> w, upper |-> u] : w \in {x \in SUBSET M : Cardinality(x) <= n}, u \in BOOLEAN}

\* a classification that forgets lower(): str(e)
lower_forgotten(t) == t

\* str.lower()
lower(t) == [t EXCEPT !.upper = FALSE]

\* Python's  m in t  on strings: case-sensitive substring test of a lower-case marker
Contains(t, m) == m \in t.words /\ (t.upper => m \in Digits)

\* an exception: what raised it and the text str(e) gives
Exc(n, t) == [name |-> n, text |-> t]

str(e) == e.text

\* ValueError("Prompt cannot be empty or None.")
EmptyPromptError == Exc("ValueError: empty prompt", [words |-> {}, upper |-> FALSE])

\* ValueError("API returned an empty result (No Image).")
EmptyResultError == Exc("ValueError: empty result", [words |-> {}, upper |-> FALSE])

\* TypeError("argument of type 'NoneType' is not iterable")
NotIterableError == Exc("TypeError: not iterable", [words |-> {}, upper |-> FALSE])

\* the failures an external call (requests, the inference client) raises
Failures(M, n) == {Exc("external", t) : t \in Texts(M, n)}

NoExc == Exc("", [words |-> {}, upper |-> FALSE])

\* ---------------------------------------------------------------- log lines
\* a printed line: which print statement, the values formatted into it, and the
\* exception texts printed verbatim in it (none, in the code as written)
Line(l, args) == [line |-> l, args |-> args, verbatim |-> {}]

\* ------------------------------------------------------------- generate_img
\* what the backend call client.text_to_image answers
GenReply(k, e) == [kind |-> k, e |-> e]

GenReplies(n) ==
    {GenReply("image", NoExc), GenReply("empty", NoExc)}
        \cup {GenReply("raise", e) : e \in Failures(GenMarkers, n)}

\* which branch of generate_img's except clause a lower-cased text takes
GenBranch(error_str) ==
    IF Contains(error_str, "401") \/ Contains(error_str, "unauthorized")
           \/ Contains(error_str, "token")
    THEN "auth"
    ELSE IF Contains(error_str, "429") \/ Contains(error_str, "quota")
    THEN "quota"
    ELSE IF Contains(error_str, "503") \/ Contains(error_str, "loading")
    THEN "busy"
    ELSE IF Contains(error_str, "connection") \/ Contains(error_str, "max retries")
    THEN "network"
    ELSE IF Contains(error_str, "credit balance") \/ Contains(error_str, "depleted")
           \/ Contains(error_str, "429")
    THEN "credit"
    ELSE "unknown"

\* warning_msg
QuotaExceededMsg == "QUOTA EXCEEDED: Your Hugging Face credit balance is depleted."

\* an except clause whose last branch prints the exception: print(f"... {e}")
GenExceptLogVerbatim(branch, e) ==
    CASE branch = "auth" -> <<Line("AUTH ERROR", <<>>)>>
      [] branch = "quota" -> <<Line("QUOTA ERROR", <<>>)>>
      [] branch = "busy" -> <<Line("MODEL BUSY", <<>>)>>
      [] branch = "network" -> <<Line("NETWORK ERROR: Hugging Face", <<>>)>>
      [] branch = "credit" -> <<Line(QuotaExceededMsg, <<>>)>>
      [] OTHER -> <<[line |-> "GENERATION FAILED", args |-> <<>>, verbatim |-> {str(e)}]>>

\* the lines generate_img's except clause prints on each branch
GenExceptLog(branch, e) ==
    CASE branch = "auth" -> <<Line("AUTH ERROR", <<>>)>>
      [] branch = "quota" -> <<Line("QUOTA ERROR", <<>>)>>
      [] branch = "busy" -> <<Line("MODEL BUSY", <<>>)>>
      [] branch = "network" -> <<Line("NETWORK ERROR: Hugging Face", <<>>)>>
      [] branch = "credit" -> <<Line(QuotaExceededMsg, <<>>)>>
      [] OTHER -> <<Line("GENERATION FAILED", <<>>), Line("(Error details hidden)", <<>>)>>

\* what generate_img returns: an in-memory PNG, a string, or None
Bytes == [type |-> "bytes", text |-> ""]

Text(t) == [type |-> "str", text |-> t]

NoResult == [type |-> "none", text |-> ""]

\* generate_img(prompt) when the backend answers `reply`: whether it raised and
\* what, the value returned, the number of backend calls made, the lines printed
generate_img(prompt, reply) ==
    IF prompt.none \/ strip(prompt.s) = <<>>
    THEN [raised |-> TRUE, exc |-> EmptyPromptError, result |-> NoResult, backend |-> 0,
          log |-> <<Line("Error: Received an empty prompt.", <<>>)>>]
    ELSE LET generating == <<Line("Generating Image for", prompt.s)>>
         IN  IF reply.kind = "image"
             THEN [raised |-> FALSE, exc |-> NoExc, result |-> Bytes, backend |-> 1,
                   log |-> generating \o <<Line("Image generated", <<>>)>>]
             ELSE LET e == IF reply.kind = "raise" THEN reply.e ELSE EmptyResultError
                      branch == GenBranch(lower(str(e)))
                  IN  [raised |-> FALSE, exc |-> NoExc,
                       result |-> IF branch = "credit" THEN Text(QuotaExceededMsg)
                                  ELSE NoResult,
                       backend |-> 1,
                       log |-> generating \o GenExceptLog(branch, e)]

\* ------------------------------------------------------- get_prompt_from_tele
\* a JSON value response.json() returns: a dict with or without "result", or null
JsonResult(updates) == [type |-> "dict", has_result |-> TRUE, result |-> updates]

EmptyDict == [type |-> "dict", has_result |-> FALSE, result |-> <<>>]

JsonNull == [type |-> "null", has_result |-> FALSE, result |-> <<>>]

\* what requests.get answers: a body that parses as JSON, or an exception
PollReply(k, d, e) == [kind |-> k, data |-> d, e |-> e]

\* which branch of get_prompt_from_tele's except clause a lower-cased text takes
PollBranch(error_str) ==
    IF Contains(error_str, "connection") \/ Contains(error_str, "max retries")
           \/ Contains(error_str, "failed to resolve")
    THEN "network"
    ELSE IF Contains(error_str, "read timed out")
    THEN "timeout"
    ELSE IF Contains(error_str, "ssl")
    THEN "ssl"
    ELSE "unknown"

\* the lines get_prompt_from_tele's except clause prints on each branch
PollExceptLog(branch, e) ==
    CASE branch = "network" -> <<Line("NETWORK ERROR: Failed to fetch updates", <<>>)>>
      [] branch = "timeout" -> <<Line("Polling cycle refreshed", <<>>)>>
      [] branch = "ssl" -> <<Line("SSL ERROR", <<>>)>>
      [] OTHER -> <<Line("POLLING ERROR", <<>>), Line("(Error details hidden)", <<>>)>>

\* get_prompt_from_tele(last_update_id) when requests.get answers `reply`: the
\* offset sent, the value returned and the lines printed
get_prompt_from_tele(offset, reply) ==
    IF reply.kind = "json"
    THEN [offset |-> offset, data |-> reply.data, log |-> <<>>]
    ELSE [offset |-> offset, data |-> EmptyDict,
          log |-> PollExceptLog(PollBranch(lower(str(reply.e))), reply.e)]

\* ------------------------------------------------------------ the responders
\* what requests.post answers: a response with a status code and a body, or an
\* exception
PostReply(k, c, b, e) == [kind |-> k, status |-> c, body |-> b, e |-> e]

Delivered == PostReply("response", "200", "ok", NoExc)

Refused == PostReply("response", "400", "Bad Request: chat not found", NoExc)

PostReplies(M, n) ==
    {Delivered, Refused} \cup {PostReply("raise", "", "", e) : e \in Failures(M, n)}

\* which branch of to_telegram's except clause a lower-cased text takes
PhotoBranch(error_str) ==
    IF Contains(error_str, "connection") \/ Contains(error_str, "failed to resolve")
           \/ Contains(error_str, "max retries")
    THEN "network"
    ELSE IF Contains(error_str, "timeout")
    THEN "timeout"
    ELSE IF Contains(error_str, "ssl") \/ Contains(error_str, "certificate")
    THEN "ssl"
    ELSE "unknown"

\* the lines to_telegram's except clause prints on each branch
PhotoExceptLog(branch, sender_name, e) ==
    CASE branch = "network" -> <<Line("NETWORK ERROR: Failed to send image to", <<sender_name>>)>>
      [] branch = "timeout" -> <<Line("TIMEOUT ERROR: Sending image to", <<sender_name>>)>>
      [] branch = "ssl" -> <<Line("SSL ERROR: Connection failed", <<>>)>>
      [] OTHER -> <<Line("SENDING FAILED", <<sender_name>>), Line("(Error details hidden)", <<>>)>>

\* to_telegram(sender_name, chat_id, caption, img) when requests.post answers
\* `reply`: the lines printed
to_telegram(token, sender_name, chat_id, caption, reply) ==
    IF ~token
    THEN <<Line("Error: Telegram credentials are missing.", <<>>)>>
    ELSE <<Line("Sending image to", <<sender_name, chat_id>>)>> \o
         (IF reply.kind = "response"
          THEN IF reply.status = "200"
               THEN <<Line("Success: Image delivered", <<>>)>>
               ELSE <<Line("Telegram Refused: Status Code", <<reply.status>>),
                      Line("Error Details", <<reply.body>>)>>
          ELSE PhotoExceptLog(PhotoBranch(lower(str(reply.e))), sender_name, reply.e))

\* which branch of send_information's except clause a lower-cased text takes
InfoBranch(error_str) ==
    IF Contains(error_str, "connection") \/ Contains(error_str, "dns")
    THEN "network"
    ELSE IF Contains(error_str, "timeout")
    THEN "timeout"
    ELSE IF Contains(error_str, "ssl")
    THEN "ssl"
    ELSE "unknown"

\* the line send_information's except clause prints on each branch
InfoExceptLog(branch, e) ==
    CASE branch = "network" -> <<Line("Status: Network Error", <<>>)>>
      [] branch = "timeout" -> <<Line("Status: Timeout Error", <<>>)>>
      [] branch = "ssl" -> <<Line("Status: SSL Error", <<>>)>>
      [] OTHER -> <<Line("Status: Send Failed (Unknown Error)", <<>>)>>

\* send_information(sender_name, chat_id, information) when requests.post answers
\* `reply`: the lines printed
send_information(token, sender_name, chat_id, information, reply) ==
    IF ~token
    THEN <<Line("Error: Telegram credentials are missing.", <<>>)>>
    ELSE <<Line("SENDING INFO TO", <<sender_name, chat_id>>)>> \o
         (IF reply.kind = "response"
          THEN IF reply.status = "200"
               THEN <<Line("Status: Message delivered", <<>>)>>
               ELSE <<Line("Status: Telegram Refused", <<reply.status>>),
                      Line("Details", <<reply.body>>)>>
          ELSE InfoExceptLog(InfoBranch(lower(str(reply.e))), reply.e))

\* --------------------------------------------------------------- updates
\* a key the JSON object does not have
Absent == ""

\* a lookup without the default: dict.get(key)
GetNoDefault(v, default) == v

\* dict.get(key, default)
Get(v, default) == IF v = Absent THEN default ELSE v

\* an update of the platform's feed: update_id, and optionally a message with
\* optionally text, from.first_name and chat.id
Shapes(texts, names, chats) ==
    {[has_message |-> FALSE, has_text |-> FALSE, text |-> <<>>, from |-> Absent,
      chat |-> Absent]}
        \cup {[has_message |-> TRUE, has_text |-> FALSE, text |-> <<>>, from |-> f, chat |-> c] :
                f \in names, c \in chats}
        \cup {[has_message |-> TRUE, has_text |-> TRUE, text |-> t, from |-> f, chat |-> c] :
                t \in texts, f \in names, c \in chats}

Update(id, shape) ==
    [update_id |-> id, has_message |-> shape.has_message, has_text |-> shape.has_text,
     text |-> shape.text, from |-> shape.from, chat |-> shape.chat]

\* ------------------------------------------------------------------- main
VARIABLES
    TELEGRAM_TOKEN,   \* whether the bot token is set in the environment
    last_update_id,   \* main's cursor
    pc,               \* where main is: "poll", "message" (in the for loop), "fault"
    data,             \* data["result"] of the last poll
    idx,              \* how many messages of data the for loop has taken
    offset,           \* the offset the last poll sent (0: no poll yet)
    feed,             \* the platform's unconfirmed updates
    nextId,           \* the update_id the platform gives the next update
    genCount,         \* per update_id, how often its text was handed to generate_img
    calls,            \* the calls main made for the message taken last
    log,              \* the lines the last step printed
    lastSleep,        \* the argument of the last time.sleep (0: none yet)
    err,              \* the exception the fault boundary caught last
    env,              \* what the external calls of the last step answered
    genIn,            \* the prompt of the generate_img call of the last step
    genOut            \* what the generate_img call of the last step did

vars ==
    <<TELEGRAM_TOKEN, last_update_id, pc, data, idx, offset, feed, nextId, genCount,
      calls, log, lastSleep, err, env, genIn, genOut>>

\* a call main makes: the function, the chat, the prompt or caption, the text
Call(op, chat, prompt, text) == [op |-> op, chat |-> chat, prompt |-> prompt, text |-> text]

GenericFailureMsg == "Sorry, failed to generate image due to server error."

NoGenOut ==
    [raised |-> FALSE, exc |-> NoExc, result |-> NoResult, backend |-> 0, log |-> <<>>]

NoPollReply == PollReply("", EmptyDict, NoExc)

NoGenReply == GenReply("", NoExc)

NoPostReply == PostReply("", "", "", NoExc)

Env(p, g, r) == [poll |-> p, gen |-> g, post |-> r]

\* a poll that repeats the cursor: get_prompt_from_tele(last_update_id)
PollOffsetSame(cursor) == cursor

\* the offset main polls with
PollOffset(cursor) == cursor + 1

\* a cursor that only moves up: max(last_update_id, message["update_id"])
AcknowledgeMax(cursor, message) ==
    IF message.update_id > cursor THEN message.update_id ELSE cursor

\* a cursor set after the text check, so only for messages with text
AcknowledgeWithText(cursor, message) ==
    IF message.has_message /\ message.has_text THEN message.update_id ELSE cursor

\* a cursor that is the next update_id: message["update_id"] + 1
AcknowledgeNext(cursor, message) == message.update_id + 1

\* last_update_id = message["update_id"]
Acknowledge(cursor, message) == message.update_id

\* the body of main's for loop for one message, after the cursor is set, when the
\* backend answers greply and the platform's send endpoint answers preply
handle_message(token, message, greply, preply) ==
    IF ~(message.has_message /\ message.has_text)
    THEN [called |-> FALSE, gen |-> NoGenOut, calls |-> <<>>, log |-> <<>>]
    ELSE LET prompt == message.text
             sender_name == Get(message.from, "Unknown")
             chat_id == Get(message.chat, "Unknown")
             received == <<Line("RECEIVED MESSAGE from", <<sender_name>> \o prompt)>>
             g == generate_img(Str(prompt), greply)
             generate == <<Call("generate_img", "", prompt, "")>>
         IN  IF g.raised
             THEN [called |-> TRUE, gen |-> g, calls |-> generate, log |-> received \o g.log]
             ELSE IF g.result.type = "none"
             THEN [called |-> TRUE, gen |-> g,
                   calls |-> generate \o
                       <<Call("send_information", chat_id, <<>>, GenericFailureMsg)>>,
                   log |-> received \o g.log
                       \o <<Line("Image generation failed (returned None).", <<>>)>>
                       \o send_information(token, sender_name, chat_id, GenericFailureMsg, preply)]
             ELSE IF g.result.type = "str"
             THEN [called |-> TRUE, gen |-> g,
                   calls |-> generate \o
                       <<Call("send_information", chat_id, <<>>, g.result.text)>>,
                   log |-> received \o g.log
                       \o send_information(token, sender_name, chat_id, g.result.text, preply)]
             ELSE [called |-> TRUE, gen |-> g,
                   calls |-> generate \o <<Call("to_telegram", chat_id, prompt, "")>>,
                   log |-> received \o g.log
                       \o to_telegram(token, sender_name, chat_id, prompt, preply)
                       \o <<Line("Image sent successfully.", <<>>)>>]

\* which branch of main's except clause a lower-cased text takes
MainBranch(error_str) ==
    IF Contains(error_str, "connection") \/ Contains(error_str, "failed to resolve")
           \/ Contains(error_str, "max retries")
    THEN "network"
    ELSE IF Contains(error_str, "timeout")
    THEN "timeout"
    ELSE IF Contains(error_str, "json") \/ Contains(error_str, "decode")
    THEN "json"
    ELSE "unknown"

\* the lines main's except clause prints on each branch
MainExceptLog(branch, e) ==
    CASE branch = "network" -> <<Line("NETWORK ERROR: Failed to connect to Telegram", <<>>)>>
      [] branch = "timeout" -> <<Line("TIMEOUT ERROR: Telegram is not responding", <<>>)>>
      [] branch = "json" -> <<Line("API ERROR: Invalid response from Telegram", <<>>)>>
      [] OTHER -> <<Line("CRITICAL ERROR", <<>>), Line("(Error details hidden)", <<>>)>>

\* an except clause that leaves the while loop after logging
fault_boundary_exit(e) ==
    [log |-> MainExceptLog(MainBranch(lower(str(e))), e)
                \o <<Line("Restarting polling in 5 seconds...", <<>>)>>,
     sleep |-> LongPause,
     pc |-> "exit"]

\* main's except clause: the lines printed, the pause, and where main goes on
fault_boundary(e) ==
    [log |-> MainExceptLog(MainBranch(lower(str(e))), e)
                \o <<Line("Restarting polling in 5 seconds...", <<>>)>>,
     sleep |-> LongPause,
     pc |-> "poll"]

\* min(n + 1, 2): the count is kept only up to 2
Bump(n) == IF n < 2 THEN n + 1 ELSE n

\* ------------------------------------------------------------ environments
\* the texts a chat message can carry
MsgTexts == Strings(MaxLen)

\* every shape of update, for the runs that look at one poll result
AllShapes == Shapes(MsgTexts, {"Ada", Absent}, {"42", Absent})

\* the updates the long-running specifications deliver
FeedShapes == Shapes({<<>>, <<" ">>, <<"a">>}, {"Ada"}, {"42"})

\* the answers of the backend and of the send endpoint in the long-running
\* specifications: one per outcome main tells apart
SomeGenReplies ==
    {GenReply("image", NoExc), GenReply("empty", NoExc),
     GenReply("raise", Exc("external", [words |-> {"depleted"}, upper |-> FALSE])),
     GenReply("raise", Exc("external", [words |-> {"503"}, upper |-> FALSE]))}

SomePostReplies ==
    {Delivered, Refused,
     PostReply("raise", "", "", Exc("external", [words |-> {"timeout"}, upper |-> FALSE]))}

SomePollFailures ==
    {Exc("external", [words |-> {"read timed out"}, upper |-> FALSE]),
     Exc("external", [words |-> {"connection"}, upper |-> TRUE])}

\* the platform's answer to getUpdates?offset=o: the unconfirmed updates from o on,
\* the updates below o being confirmed and forgotten; an error object without
\* "result" (always, when the token is missing); a body that is JSON null; or no
\* answer
PlatformAnswers(o) ==
    LET pending == SelectSeq(feed, LAMBDA u : u.update_id >= o)
    IN  (IF TELEGRAM_TOKEN
         THEN {[reply |-> PollReply("json", JsonResult(pending), NoExc), feed |-> pending],
               [reply |-> PollReply("json", JsonNull, NoExc), feed |-> feed]}
         ELSE {})
            \cup {[reply |-> PollReply("json", EmptyDict, NoExc), feed |-> feed]}
            \cup {[reply |-> PollReply("raise", EmptyDict, e), feed |-> feed] :
                    e \in SomePollFailures}

\* ----------------------------------------------------------------- actions
\* a user sends the bot a message: the platform appends an update to the feed
UserSends ==
    /\ nextId <= MaxId
    /\ \E shape \in FeedShapes : feed' = Append(feed, Update(nextId, shape))
    /\ nextId' = nextId + 1
    /\ UNCHANGED <<TELEGRAM_TOKEN, last_update_id, pc, data, idx, offset, genCount, calls,
                   log, lastSleep, err, env, genIn, genOut>>

\* main, from the top of the while loop to the for loop (or, with no message, to
\* the end of the cycle), when requests.get answers `reply`
PollWith(reply) ==
    LET r == get_prompt_from_tele(PollOffset(last_update_id), reply)
    IN  /\ pc = "poll"
        /\ offset' = r.offset
        /\ env' = Env(reply, NoGenReply, NoPostReply)
        /\ idx' = 0
        /\ calls' = <<>>
        /\ IF r.data.type = "null"
           THEN /\ pc' = "fault"
                /\ err' = NotIterableError
                /\ log' = r.log
                /\ data' = <<>>
                /\ UNCHANGED lastSleep
           ELSE IF r.data.has_result /\ Len(r.data.result) > 0
           THEN /\ pc' = "message"
                /\ data' = r.data.result
                /\ log' = r.log \o <<Line("Update Received", <<>>)>>
                /\ UNCHANGED <<err, lastSleep>>
           ELSE /\ pc' = "poll"
                /\ data' = <<>>
                /\ log' = r.log \o <<Line("No new messages... Waiting...", <<>>)>>
                /\ lastSleep' = ShortPause
                /\ UNCHANGED err
        /\ genIn' = None
        /\ genOut' = NoGenOut
        /\ UNCHANGED <<TELEGRAM_TOKEN, last_update_id, nextId, genCount>>

\* a poll the platform answers
Poll ==
    /\ pc = "poll"
    /\ \E a \in PlatformAnswers(PollOffset(last_update_id)) :
          /\ PollWith(a.reply)
          /\ feed' = a.feed

\* one pass of main's for loop, when the backend answers greply and the send
\* endpoint preply; after the last message, the pause that ends the cycle
HandleWith(greply, preply) ==
    /\ pc = "message"
    /\ LET message == data[idx + 1]
           h == handle_message(TELEGRAM_TOKEN, message, greply, preply)
       IN  /\ idx' = idx + 1
           /\ last_update_id' = Acknowledge(last_update_id, message)
           /\ calls' = h.calls
           /\ log' = h.log
           /\ env' = Env(NoPollReply, greply, preply)
           /\ genIn' = IF h.called THEN Str(message.text) ELSE None
           /\ genOut' = h.gen
           /\ genCount' = IF h.called /\ message.update_id \in DOMAIN genCount
                          THEN [genCount EXCEPT ![message.update_id] = Bump(@)]
                          ELSE genCount
           /\ IF h.gen.raised
              THEN /\ pc' = "fault"
                   /\ err' = h.gen.exc
                   /\ UNCHANGED lastSleep
              ELSE IF idx + 1 = Len(data)
              THEN /\ pc' = "poll"
                   /\ lastSleep' = ShortPause
                   /\ UNCHANGED err
              ELSE /\ pc' = "message"
                   /\ UNCHANGED <<err, lastSleep>>
    /\ UNCHANGED <<TELEGRAM_TOKEN, data, offset, feed, nextId>>

\* whether the message the for loop takes next reaches the backend call
ReachesBackend ==
    LET message == data[idx + 1]
    IN  message.has_message /\ message.has_text /\ strip(message.text) # <<>>

\* one pass of the for loop over the answers G of the backend and P of the send
\* endpoint (the calls not made get no answer)
HandleOver(G, P) ==
    /\ pc = "message"
    /\ \E greply \in IF ReachesBackend THEN G ELSE {NoGenReply} :
         \E preply \in IF ReachesBackend THEN P ELSE {NoPostReply} :
            HandleWith(greply, preply)

HandleMessage == HandleOver(SomeGenReplies, SomePostReplies)

\* main's except clause
Fault ==
    /\ pc = "fault"
    /\ LET f == fault_boundary(err)
       IN  /\ log' = f.log
           /\ lastSleep' = f.sleep
           /\ pc' = f.pc
    /\ env' = Env(NoPollReply, NoGenReply, NoPostReply)
    /\ UNCHANGED <<TELEGRAM_TOKEN, last_update_id, data, idx, offset, feed, nextId, genCount,
                   calls, err, genIn, genOut>>

\* the process starts: main sets last_update_id = 0
Init ==
    /\ TELEGRAM_TOKEN \in BOOLEAN
    /\ last_update_id = 0
    /\ pc = "poll"
    /\ data = <<>>
    /\ idx = 0
    /\ offset = 0
    /\ feed = <<>>
    /\ nextId = 1
    /\ genCount = [i \in 1..MaxId |-> 0]
    /\ calls = <<>>
    /\ log = <<Line("Bot is starting...", <<>>)>>
    /\ lastSleep = 0
    /\ err = NoExc
    /\ env = Env(NoPollReply, NoGenReply, NoPostReply)
    /\ genIn = None
    /\ genOut = NoGenOut

Next == UserSends \/ Poll \/ HandleMessage \/ Fault

Spec == Init /\ [][Next]_vars

\* the scheduling of a single-threaded loop whose external calls all return:
\* main always takes its next step
FairSpec == Spec /\ WF_vars(Poll \/ HandleMessage \/ Fault)

\* --------------------- one poll cycle from any cursor, over a poller that returns anything
\* the sequences over S of length at most n
SeqsUpTo(S, n) == UNION {[1..k -> S] : k \in 0..n}

\* any list of updates: ids in any order, repeated, or below the offset
AnyUpdates ==
    {Update(id, shape) : id \in 1..MaxId, shape \in Shapes({<<" ">>, <<"a">>}, {"Ada"}, {"42"})}

AnyPollReplies ==
    {PollReply("json", JsonResult(r), NoExc) : r \in SeqsUpTo(AnyUpdates, MaxBatch)}
        \cup {PollReply("json", EmptyDict, NoExc), PollReply("json", JsonNull, NoExc)}
        \cup {PollReply("raise", EmptyDict, e) : e \in SomePollFailures}

\* the poll of the cycle
PollAny ==
    /\ pc = "poll"
    /\ offset = 0
    /\ \E reply \in AnyPollReplies : PollWith(reply)
    /\ UNCHANGED feed

\* main at the top of its while loop, with any cursor
InitAny ==
    /\ TELEGRAM_TOKEN = TRUE
    /\ last_update_id \in 0..MaxId
    /\ pc = "poll"
    /\ data = <<>>
    /\ idx = 0
    /\ offset = 0
    /\ feed = <<>>
    /\ nextId = 1
    /\ genCount = [i \in 1..MaxId |-> 0]
    /\ calls = <<>>
    /\ log = <<>>
    /\ lastSleep = 0
    /\ err = NoExc
    /\ env = Env(NoPollReply, NoGenReply, NoPostReply)
    /\ genIn = None
    /\ genOut = NoGenOut

NextAny == PollAny \/ HandleMessage \/ Fault

SpecAny == InitAny /\ [][NextAny]_vars

\* ------------------------------- the first poll cycle, over every answer of the services
\* the first update a bot receives, in every shape
FirstUpdates == {Update(1, shape) : shape \in AllShapes}

FirstPollReplies ==
    {PollReply("json", JsonResult(<<u>>), NoExc) : u \in FirstUpdates}
        \cup {PollReply("json", JsonResult(<<>>), NoExc), PollReply("json", EmptyDict, NoExc),
              PollReply("json", JsonNull, NoExc)}
        \cup {PollReply("raise", EmptyDict, e) : e \in Failures(PollMarkers, MaxWords)}

FirstPoll ==
    /\ offset = 0
    /\ \E reply \in FirstPollReplies : PollWith(reply)
    /\ UNCHANGED feed

\* the texts one marker of either responder makes
SendFailures == Failures(PhotoMarkers \cup InfoMarkers, 1)

SendReplies == {Delivered, Refused} \cup {PostReply("raise", "", "", e) : e \in SendFailures}

AllGenReplies == GenReplies(MaxWords)

HandleFirst == HandleOver(AllGenReplies, SendReplies)

NextMsg == FirstPoll \/ HandleFirst \/ Fault

InitMsg == Init /\ TELEGRAM_TOKEN

SpecMsg == InitMsg /\ [][NextMsg]_vars

\* ----------------------------------------------------- generate_img called directly
Prompts == {None} \cup {Str(s) : s \in Strings(MaxLen)}

InitGen ==
    /\ TELEGRAM_TOKEN = TRUE
    /\ last_update_id = 0
    /\ pc = "call"
    /\ data = <<>>
    /\ idx = 0
    /\ offset = 0
    /\ feed = <<>>
    /\ nextId = 1
    /\ genCount = [i \in 1..MaxId |-> 0]
    /\ calls = <<>>
    /\ log = <<>>
    /\ lastSleep = 0
    /\ err = NoExc
    /\ env = Env(NoPollReply, NoGenReply, NoPostReply)
    /\ genIn \in Prompts
    /\ genOut = NoGenOut

\* the call generate_img(genIn), when the backend answers `reply`
Generate ==
    /\ pc = "call"
    /\ \E reply \in AllGenReplies :
          LET g == generate_img(genIn, reply)
          IN  /\ genOut' = g
              /\ log' = g.log
              /\ env' = Env(NoPollReply, IF g.backend > 0 THEN reply ELSE NoGenReply, NoPostReply)
              /\ err' = IF g.raised THEN g.exc ELSE NoExc
    /\ pc' = "returned"
    /\ UNCHANGED <<TELEGRAM_TOKEN, last_update_id, data, idx, offset, feed, nextId, genCount,
                   calls, lastSleep, genIn>>

SpecGen == InitGen /\ [][Generate]_vars

\* =================================================================== claims
\* the starting cursor of the cycle: the cursor the last poll was issued with
StartCursor == offset - 1

\* a poll has been issued and main's for loop over its result is over: it ran to
\* the end, or an exception left it
LoopOver == offset > 0 /\ pc \in {"poll", "fault"}

\* the update_ids of the messages the for loop has taken
ProcessedIds == {data[i].update_id : i \in 1..idx}

MaxOf(S) == CHOOSE x \in S : \A y \in S : y <= x

\* the for loop has taken a message, and it is the one calls, log and env are about
Taken == idx > 0 /\ pc \in {"message", "poll", "fault"}

HasText(message) == message.has_message /\ message.has_text

IsBlank(s) == \A i \in 1..Len(s) : s[i] \in Whitespace

\* the exception text contains the marker, whatever its case
Has(e, m) == m \in e.text.words

\* the chat a reply to the message goes to
ChatOf(message) == IF message.chat = Absent THEN "Unknown" ELSE message.chat

\* C1 (as stated): after the for loop over a poll result R the cursor is >= the
\* starting cursor C; with messages processed it is the maximum update_id among
\* them; with none (a failed or empty poll) it is C
C1_AsStated ==
    LoopOver =>
        /\ last_update_id >= StartCursor
        /\ idx > 0 => last_update_id = MaxOf(ProcessedIds)
        /\ idx = 0 => last_update_id = StartCursor

\* C1 (amended): after the for loop over a poll result R the cursor is the
\* update_id of the last message processed; it is >= C and the maximum update_id
\* among the processed messages whenever their update_ids are ascending and above
\* C; a failed or empty poll leaves the cursor at C
C1_CursorIsLastProcessed ==
    LoopOver =>
        /\ idx > 0 => last_update_id = data[idx].update_id
        /\ idx = 0 => last_update_id = StartCursor
        /\ (/\ idx > 0
            /\ \A i \in 1..idx : data[i].update_id > StartCursor
            /\ \A i \in 1..(idx - 1) : data[i].update_id < data[i + 1].update_id)
           => last_update_id >= StartCursor /\ last_update_id = MaxOf(ProcessedIds)

\* a poll result of two updates, ascending and above the starting cursor, has been
\* processed to the end
C1_Witness ==
    /\ LoopOver /\ pc = "poll" /\ idx = 2 /\ Len(data) = 2
    /\ StartCursor = 0
    /\ data[1].update_id = 1 /\ data[2].update_id = 2
    /\ last_update_id = 2

\* the responder call main makes for what generate_img returned
ResponderCall(message, result) ==
    LET chat_id == ChatOf(message)
    IN  CASE result.type = "none" -> Call("send_information", chat_id, <<>>, GenericFailureMsg)
          [] result.type = "str" -> Call("send_information", chat_id, <<>>, result.text)
          [] OTHER -> Call("to_telegram", chat_id, message.text, "")

\* the calls main makes for a message with text whose generation returns
OneGenerationOneResponse ==
    /\ Len(calls) = 2
    /\ calls[1] = Call("generate_img", "", data[idx].text, "")
    /\ genIn = Str(data[idx].text)
    /\ ~genOut.raised
    /\ calls[2] = ResponderCall(data[idx], genOut.result)

\* C2 (as stated): for every message with text main calls generate_img once with
\* that text and then makes exactly one responder call, chosen by the outcome
C2_AsStated == (Taken /\ HasText(data[idx])) => OneGenerationOneResponse

\* C2 (amended): for every message whose text is not empty or whitespace-only,
\* main calls generate_img once with that text and then makes exactly one
\* responder call, chosen by the outcome: send_information with the generic
\* failure message (None), send_information with the advisory (a string),
\* to_telegram to the message's chat with the prompt as caption (an image)
C2_OneResponsePerPrompt ==
    (Taken /\ HasText(data[idx]) /\ ~IsBlank(data[idx].text)) => OneGenerationOneResponse

\* the text "a" from chat 42 was generated and the image sent to chat 42
C2_Witness ==
    /\ Taken /\ HasText(data[idx]) /\ data[idx].text = <<"a">> /\ data[idx].chat = "42"
    /\ genOut.result = Bytes
    /\ calls = <<Call("generate_img", "", <<"a">>, ""), Call("to_telegram", "42", <<"a">>, "")>>

\* C3: a message without text, or an update without a message, causes no call of
\* generate_img or of a responder, wherever it is in the batch, and the cursor is
\* its update_id
C3_TextlessOnlyAcknowledged ==
    (Taken /\ ~HasText(data[idx])) =>
        /\ calls = <<>>
        /\ env.gen = NoGenReply /\ env.post = NoPostReply
        /\ genCount[data[idx].update_id] = 0
        /\ last_update_id = data[idx].update_id

\* an update without a message object, second of its batch, has been taken
C3_Witness ==
    /\ Taken /\ idx = 2 /\ Len(data) = 2
    /\ ~data[2].has_message
    /\ HasText(data[1])
    /\ last_update_id = data[2].update_id

\* the poll result was a single update and main has taken it
SingleTaken == Taken /\ Len(data) = 1 /\ idx = 1

\* C4 (as stated): after a poll result with the single update n the cursor is n + 1
C4_AsStated == SingleTaken => last_update_id = data[1].update_id + 1

\* C4 (amended): after a poll result with the single update n the cursor is n,
\* with or without text, and the offset of the next poll is n + 1
C4_CursorIsUpdateId ==
    SingleTaken =>
        /\ last_update_id = data[1].update_id
        /\ PollOffset(last_update_id) = data[1].update_id + 1

\* a single update without text, with update_id 2, has been taken
C4_Witness ==
    /\ SingleTaken /\ pc = "poll"
    /\ ~HasText(data[1]) /\ data[1].update_id = 2
    /\ last_update_id = 2

\* C5: generate_img with None, "" or whitespace raises the empty-prompt
\* ValueError and makes no backend call
C5_EmptyPromptRejected ==
    (pc = "returned" /\ (genIn.none \/ IsBlank(genIn.s))) =>
        /\ genOut.raised
        /\ genOut.exc = EmptyPromptError
        /\ genOut.backend = 0
        /\ env.gen = NoGenReply

\* generate_img(" ") has raised
C5_Witness ==
    /\ pc = "returned" /\ genIn = Str(<<" ">>)
    /\ genOut.raised /\ genOut.backend = 0

\* C6 (as stated): a backend failure whose text contains "429" and "quota" makes
\* generate_img return a non-empty advisory string
C6_AsStated ==
    (pc = "returned" /\ env.gen.kind = "raise" /\ Has(env.gen.e, "429")
        /\ Has(env.gen.e, "quota"))
    => genOut.result.type = "str" /\ genOut.result.text # ""

\* the markers generate_img tests before "credit balance" and "depleted"
EarlierMarkers == GenMarkers \ {"credit balance", "depleted"}

CreditDepleted ==
    /\ Taken /\ env.gen.kind = "raise"
    /\ Has(env.gen.e, "credit balance") /\ Has(env.gen.e, "depleted")

\* C7 (as stated): a backend failure whose text contains "credit balance" and
\* "depleted" results in one send_information call with the advisory and no
\* to_telegram call, whatever else the text contains
C7_AsStated ==
    CreditDepleted =>
        calls = <<Call("generate_img", "", data[idx].text, ""),
                  Call("send_information", ChatOf(data[idx]), <<>>,
                       QuotaExceededMsg)>>

\* C7 (amended): a backend failure whose text contains "credit balance" and
\* "depleted" results in exactly one send_information call and no to_telegram
\* call; its text is the advisory when the failure text contains none of the
\* markers generate_img tests first, and the generic failure message otherwise
C7_CreditDepletedAdvisory ==
    CreditDepleted =>
        calls = <<Call("generate_img", "", data[idx].text, ""),
                  Call("send_information", ChatOf(data[idx]), <<>>,
                       IF \E m \in EarlierMarkers : Has(env.gen.e, m)
                       THEN GenericFailureMsg ELSE QuotaExceededMsg)>>

\* "credit balance ... depleted", in upper case, was answered with the advisory
C7_Witness ==
    /\ CreditDepleted
    /\ env.gen.e.text = [words |-> {"credit balance", "depleted"}, upper |-> TRUE]
    /\ Len(calls) = 2 /\ calls[2].text = QuotaExceededMsg

\* an exception with a text of T that the branch function B classifies as
\* it classifies e: another failure of the same category
SameCategory(B(_), T, e) == Exc("external", CHOOSE t \in T : B(lower(t)) = B(lower(str(e))))

\* the one-marker texts of each site
GenTexts == Texts(GenMarkers, 1)

PollTexts == Texts(PollMarkers, 1)

PhotoTexts == Texts(PhotoMarkers, 1)

InfoTexts == Texts(InfoMarkers, 1)

MainTexts == Texts(MainMarkers, 1)

\* the backend's answer with the failure replaced by another of its category
OtherGenReply(greply) ==
    IF greply.kind = "raise"
    THEN GenReply("raise", SameCategory(GenBranch, GenTexts, greply.e))
    ELSE greply

\* the send endpoint's answer with the failure replaced by another of its
\* category, for the responder that was called
OtherPostReply(preply, op) ==
    IF preply.kind # "raise"
    THEN preply
    ELSE IF op = "to_telegram"
    THEN PostReply("raise", "", "", SameCategory(PhotoBranch, PhotoTexts, preply.e))
    ELSE PostReply("raise", "", "", SameCategory(InfoBranch, InfoTexts, preply.e))

\* the last step was main's except clause
AfterFault == pc = "poll" /\ lastSleep = LongPause /\ env = Env(NoPollReply, NoGenReply, NoPostReply)
                /\ Len(log) > 0 /\ log[Len(log)].line = "Restarting polling in 5 seconds..."

\* C8: no printed line holds a failure text verbatim; the only texts sent to a
\* chat are the generic failure message and the quota advisory; and the lines
\* printed and the calls made by the poller, the generator, the responders and
\* the fault boundary are those of any other failure of the same category
C8_FailureTextNeverSurfaces ==
    /\ \A i \in 1..Len(log) : log[i].verbatim = {}
    /\ \A i \in 1..Len(calls) :
          calls[i].op = "send_information" => calls[i].text \in {GenericFailureMsg, QuotaExceededMsg}
    /\ env.poll.kind = "raise" =>
          LET other == PollReply("raise", EmptyDict, SameCategory(PollBranch, PollTexts, env.poll.e))
              r == get_prompt_from_tele(offset, other)
          IN  r.data = EmptyDict /\ log = r.log \o <<Line("No new messages... Waiting...", <<>>)>>
    /\ (Taken /\ env.gen.kind # "") =>
          LET h == handle_message(TELEGRAM_TOKEN, data[idx], OtherGenReply(env.gen),
                                  OtherPostReply(env.post, calls[Len(calls)].op))
          IN  h.log = log /\ h.calls = calls
    /\ AfterFault => log = fault_boundary(SameCategory(MainBranch, MainTexts, err)).log

\* the backend failed with "token ... quota" and the send endpoint with "DNS": the
\* user was sent the generic failure message
C8_Witness ==
    /\ Taken
    /\ env.gen.kind = "raise" /\ env.gen.e.text = [words |-> {"token", "quota"}, upper |-> FALSE]
    /\ env.post.kind = "raise" /\ env.post.e.text = [words |-> {"dns"}, upper |-> TRUE]
    /\ Len(calls) = 2 /\ calls[2].text = GenericFailureMsg
    /\ Len(log) = 6

\* C9: no update_id is handed to generate_img more than once, over all poll
\* cycles, failed polls and fault-boundary passes included
C9_AtMostOnce == \A id \in DOMAIN genCount : genCount[id] <= 1

\* update 1 raised the empty-prompt error in the middle of its batch, the fault
\* boundary was taken, and a later poll delivered update 2, which was generated
C9_Witness ==
    /\ genCount[1] = 1 /\ genCount[2] = 1
    /\ err = EmptyPromptError
    /\ offset = 2
    /\ Taken /\ data[idx].update_id = 2 /\ Len(calls) = 2

\* C10: the fault boundary always leads back to the poll, after the long pause
\* and with the cursor it had; and main is at its poll again and again
C10_LoopNeverStops ==
    /\ [][(pc = "fault" /\ pc' # "fault") =>
            /\ pc' = "poll"
            /\ lastSleep' = LongPause
            /\ lastSleep' # ShortPause
            /\ last_update_id' = last_update_id]_vars
    /\ []<>(pc = "poll")
    /\ (pc = "fault") ~> (pc = "poll" /\ lastSleep = LongPause)

\* the empty-prompt error was caught and main is back at its poll after the long
\* pause
C10_Witness ==
    /\ pc = "poll" /\ lastSleep = LongPause /\ err = EmptyPromptError
    /\ last_update_id > 0 /\ AfterFault

====
